---- MODULE Spec2Model ----
(***************************************************************************)
(* A model of dub-video.py: the orchestrator main() and the stage          *)
(* functions it sequences (download_remote_video, extract_audio,           *)
(* transcribe_audio, synthesize_segments_tts, concatenate_audio,           *)
(* combine_audio_video), over an abstract file system.                     *)
(*                                                                         *)
(* A path is a sequence of components (strings); the empty sequence is a   *)
(* falsy path (None or "").  A voice is a string; "" is a falsy voice      *)
(* (None or "").  External tools and engines either succeed or raise; what *)
(* they leave on disk when they raise is a nondeterministic choice.        *)
(***************************************************************************)
EXTENDS Integers, Sequences, FiniteSets, TLC

\* ---------------------------------------------------------------- bounds
\* the longest segment list the transcription engine returns in the model
MaxSegs == 3
\* the longest voice roster the synthesis engine exposes in the model
MaxRoster == 2
\* how far around each power of ten the file-name check draws its indices
NameSpan == 2

\* ------------------------------------------------------ program constants
\* the minimum field width of f"segment_{i:04d}.wav"
PadWidth == 4

\* ------------------------------------------------------------ the inputs
NoPath == <<>>
NoVoice == ""
NoLanguage == ""

\* what tempfile.mkdtemp() returns: a fresh absolute directory
TempDir == <<"/", "tmp", "tmpdub">>
\* the process's working directory
Cwd == <<"/", "home", "user">>
\* a local video that exists, and one that does not
LocalVideo == <<"/", "home", "user", "talk.mp4">>
MissingVideo == <<"/", "home", "user", "gone.mp4">>
\* a reference audio for voice cloning
RefWav == <<"/", "home", "user", "ref.wav">>
\* the default of --output, relative to the working directory
DefaultOutput == <<"dubbed_video.mp4">>
TheUrl == "https://example.org/v"
NoUrl == ""

VideoArgs == {NoPath, LocalVideo, MissingVideo}
UrlArgs == {NoUrl, TheUrl}
VoiceArgs == {NoVoice, "narrator_b", "en_us_female"}
SpeakerWavArgs == {NoPath, RefWav}
LanguageArgs == {NoLanguage, "en"}

RosterNames == {"narrator_a", "narrator_b"}
SegmentTexts == {"", "Hello"}

\* sequences over S of length at most n
SeqsUpTo(S, n) == UNION {[1..k -> S] : k \in 0..n}

\* what TTS(model_name=...) may be: hasattr(tts, "speakers") or not, and the
\* roster (an absent, None or empty roster is falsy)
Engines ==
    {[hasSpeakers |-> FALSE, speakers |-> <<>>]}
    \cup {[hasSpeakers |-> TRUE, speakers |-> r] : r \in SeqsUpTo(RosterNames, MaxRoster)}

\* ----------------------------------------------------------------- paths
\* os.path.join(dir, name) for a relative one-component name
PathJoin(dir, name) == Append(dir, name)

\* path + suffix: the suffix is glued to the last component
PathPlus(path, suffix) ==
    [path EXCEPT ![Len(path)] = path[Len(path)] \o suffix]

IsAbs(path) == Len(path) > 0 /\ path[1] = "/"

\* os.path.abspath(path): the working directory is put before a relative path
\* and "." components are dropped
RECURSIVE NormPath(_)
NormPath(path) ==
    IF path = <<>> THEN <<>>
    ELSE IF Head(path) = "." THEN NormPath(Tail(path))
    ELSE <<Head(path)>> \o NormPath(Tail(path))

AbsPath(path) == IF IsAbs(path) THEN NormPath(path) ELSE NormPath(Cwd \o path)

\* path is dir or lies below it
IsUnder(path, dir) ==
    /\ Len(path) >= Len(dir)
    /\ SubSeq(path, 1, Len(dir)) = dir

\* a faulty variant: the workspace is left behind
RmTreeKeep(files, dir) == files

\* shutil.rmtree(dir) on a file system (a set of existing paths)
RmTree(files, dir) == {p \in files : ~IsUnder(p, dir)}

\* ---------------------------------------------------- segment file names
\* the decimal digits of n, most significant first
RECURSIVE Digits(_)
Digits(n) == IF n < 10 THEN <<n>> ELSE Append(Digits(n \div 10), n % 10)

RECURSIVE ZeroPad(_, _)
ZeroPad(ds, w) == IF Len(ds) >= w THEN ds ELSE ZeroPad(<<0>> \o ds, w)

\* a faulty variant: f"{i}", no padding
FormatIndexUnpadded(i) == Digits(i)

\* f"{i:04d}": at least PadWidth digits, zero-filled on the left
FormatIndex(i) == ZeroPad(Digits(i), PadWidth)

DigitChar(d) == <<"0", "1", "2", "3", "4", "5", "6", "7", "8", "9">>[d + 1]

RECURSIVE DigitsStr(_)
DigitsStr(ds) == IF ds = <<>> THEN "" ELSE DigitChar(Head(ds)) \o DigitsStr(Tail(ds))

\* f"segment_{i:04d}.wav"
SegmentFileName(i) == "segment_" \o DigitsStr(FormatIndex(i)) \o ".wav"

\* the same name as its character codes: "segment_" digits ".wav"
SegmentNameCodes(i) ==
    <<115, 101, 103, 109, 101, 110, 116, 95>>
    \o [k \in 1..Len(FormatIndex(i)) |-> 48 + FormatIndex(i)[k]]
    \o <<46, 119, 97, 118>>

\* Python's str < str: the first differing character decides, a proper prefix
\* is smaller
RECURSIVE LexLess(_, _)
LexLess(a, b) ==
    IF b = <<>> THEN FALSE
    ELSE IF a = <<>> THEN TRUE
    ELSE IF Head(a) # Head(b) THEN Head(a) < Head(b)
    ELSE LexLess(Tail(a), Tail(b))

RECURSIVE Pow10(_)
Pow10(k) == IF k = 0 THEN 1 ELSE 10 * Pow10(k - 1)

\* the indices the file-name check draws from: the first ones and those
\* around each power of ten up to one digit more than the field width
NameIndices ==
    (0..NameSpan)
    \cup UNION {(Pow10(k) - NameSpan)..(Pow10(k) + NameSpan) : k \in 1..(PadWidth + 1)}

\* ----------------------------------------------------------------- state
VARIABLES
    args,         \* the parsed command line
    fs,           \* the paths that exist (absolute)
    pc,           \* where main() is
    exc,          \* the exception being propagated, "None" when none
    failed_at,    \* the stage that raised it, "none" when none
    temp_dir,     \* main's temp_dir
    video_path,   \* main's video_path
    audio_path,   \* main's audio_path
    segments,     \* main's segments: what transcribe_audio returned
    tts_out_dir,  \* main's tts_out_dir
    tts,          \* synthesize_segments_tts's engine handle
    speaker,      \* synthesize_segments_tts's speaker
    resolved,     \* how many times lines 88-103 have run
    i,            \* the loop index of synthesize_segments_tts
    out_files,    \* synthesize_segments_tts's out_files
    tts_files,    \* main's tts_files
    full_tts_path,\* main's full_tts_path
    list_path,    \* concatenate_audio's list_path
    list_lines,   \* the lines written to the list file
    concat_input, \* the list file's lines when the codec tool was run on it
    calls,        \* the stage functions invoked, in order, with their paths
    tts_calls,    \* the tts_to_file calls made, in order, with their arguments
    printed,      \* the voice messages printed
    reads,        \* the paths read, or handed to a collaborator as its input
    writes,       \* the paths written, or handed to a collaborator as its output
    fmt           \* the file-name check's pair of indices and their names

mainVars ==
    <<args, fs, pc, exc, failed_at, temp_dir, video_path, audio_path, segments,
      tts_out_dir, tts, speaker, resolved, i, out_files, tts_files,
      full_tts_path, list_path, list_lines, concat_input, calls, tts_calls,
      printed, reads, writes>>

vars == <<mainVars, fmt>>

NoSpeaker == "<None>"
NoEngine == [hasSpeakers |-> FALSE, speakers |-> <<>>]
NoFmt == [i |-> 0, j |-> 0, name_i |-> <<>>, name_j |-> <<>>, done |-> FALSE]

Call(fn, inputs, output) == [fn |-> fn, inputs |-> inputs, output |-> output]

\* the state in which main() starts, for one command line
MainInit(a) ==
    /\ args = a
    /\ fs = {LocalVideo, RefWav}
    /\ pc = "mkdtemp"
    /\ exc = "None"
    /\ failed_at = "none"
    /\ temp_dir = NoPath
    /\ video_path = NoPath
    /\ audio_path = NoPath
    /\ segments = <<>>
    /\ tts_out_dir = NoPath
    /\ tts = NoEngine
    /\ speaker = NoSpeaker
    /\ resolved = 0
    /\ i = 0
    /\ out_files = <<>>
    /\ tts_files = <<>>
    /\ full_tts_path = NoPath
    /\ list_path = NoPath
    /\ list_lines = <<>>
    /\ concat_input = <<>>
    /\ calls = <<>>
    /\ tts_calls = <<>>
    /\ printed = <<>>
    /\ reads = {}
    /\ writes = {}

ArgSets ==
    [video : VideoArgs, url : UrlArgs, output : {DefaultOutput},
     language : LanguageArgs, voice : VoiceArgs, speaker_wav : SpeakerWavArgs]

Init ==
    /\ \E a \in ArgSets : MainInit(a)
    /\ fmt = NoFmt

\* a faulty variant: the error is swallowed and the stage is run again
RaiseRetry(kind, stage) ==
    /\ exc' = exc
    /\ failed_at' = failed_at
    /\ pc' = pc

\* a stage raises: the exception unwinds to main's finally
Raise(kind, stage) ==
    /\ exc' = kind
    /\ failed_at' = stage
    /\ pc' = "cleanup"

NoRaise == UNCHANGED <<exc, failed_at>>

\* ------------------------------------------------------------------ main
\* temp_dir = tempfile.mkdtemp()
MkDtemp ==
    /\ pc = "mkdtemp"
    /\ temp_dir' = TempDir
    /\ fs' = fs \cup {TempDir}
    /\ writes' = writes \cup {TempDir}
    /\ pc' = "acquire"
    /\ NoRaise
    /\ UNCHANGED <<args, video_path, audio_path, segments, tts_out_dir, tts,
                   speaker, resolved, i, out_files, tts_files, full_tts_path,
                   list_path, list_lines, concat_input, calls, tts_calls,
                   printed, reads, fmt>>

\* a faulty variant: the download is skipped when a local video is given
SourcePathLocalFirst(a, dir) ==
    IF a.video # NoPath THEN a.video
    ELSE IF a.url # NoUrl THEN PathJoin(dir, "input.mp4")
    ELSE a.video

\* video_path = args.video; if args.url: video_path = join(temp_dir, "input.mp4")
SourcePath(a, dir) ==
    IF a.url # NoUrl THEN PathJoin(dir, "input.mp4") ELSE a.video

\* lines 159-163, with download_remote_video (yt-dlp through run_cmd)
AcquireSource ==
    /\ pc = "acquire"
    /\ video_path' = SourcePath(args, temp_dir)
    /\ IF args.url # NoUrl
       THEN /\ calls' = Append(calls, Call("download_remote_video", {}, video_path'))
            /\ writes' = writes \cup {video_path'}
            /\ \E written \in BOOLEAN :
                 fs' = IF written THEN fs \cup {AbsPath(video_path')} ELSE fs
            /\ \/ /\ pc' = "validate"
                  /\ NoRaise
               \/ Raise("CalledProcessError", "download_remote_video")
       ELSE /\ pc' = "validate"
            /\ NoRaise
            /\ UNCHANGED <<calls, writes, fs>>
    /\ UNCHANGED <<args, temp_dir, audio_path, segments, tts_out_dir, tts,
                   speaker, resolved, i, out_files, tts_files, full_tts_path,
                   list_path, list_lines, concat_input, tts_calls, printed,
                   reads, fmt>>

\* a faulty variant: the path is not looked up on disk
SourceIsValidUnchecked(path, files) == path # NoPath

\* line 165: video_path is truthy and os.path.exists(video_path)
SourceIsValid(path, files) == path # NoPath /\ AbsPath(path) \in files

\* lines 165-166
ValidateSource ==
    /\ pc = "validate"
    /\ IF ~SourceIsValid(video_path, fs)
       THEN Raise("FileNotFoundError", "validate")
       ELSE pc' = "extract" /\ NoRaise
    /\ UNCHANGED <<args, fs, temp_dir, video_path, audio_path, segments,
                   tts_out_dir, tts, speaker, resolved, i, out_files, tts_files,
                   full_tts_path, list_path, list_lines, concat_input, calls,
                   tts_calls, printed, reads, writes, fmt>>

\* lines 168-170, with extract_audio (ffmpeg through run_cmd)
ExtractAudio ==
    /\ pc = "extract"
    /\ audio_path' = PathJoin(temp_dir, "audio.wav")
    /\ calls' = Append(calls, Call("extract_audio", {video_path}, audio_path'))
    /\ reads' = reads \cup {video_path}
    /\ writes' = writes \cup {audio_path'}
    /\ \/ /\ fs' = fs \cup {AbsPath(audio_path')}
          /\ pc' = "transcribe"
          /\ NoRaise
       \/ /\ \E written \in BOOLEAN :
               fs' = IF written THEN fs \cup {AbsPath(audio_path')} ELSE fs
          /\ Raise("CalledProcessError", "extract_audio")
    /\ UNCHANGED <<args, temp_dir, video_path, segments, tts_out_dir, tts,
                   speaker, resolved, i, out_files, tts_files, full_tts_path,
                   list_path, list_lines, concat_input, tts_calls, printed, fmt>>

\* lines 172-173, with transcribe_audio: the engine returns the segments or raises
TranscribeAudio ==
    /\ pc = "transcribe"
    /\ calls' = Append(calls, Call("transcribe_audio", {audio_path}, NoPath))
    /\ reads' = reads \cup {audio_path}
    /\ \/ /\ \E texts \in SeqsUpTo(SegmentTexts, MaxSegs) :
               segments' = [k \in 1..Len(texts) |-> [text |-> texts[k]]]
          /\ pc' = "makedirs"
          /\ NoRaise
       \/ /\ segments' = segments
          /\ Raise("EngineError", "transcribe_audio")
    /\ UNCHANGED <<args, fs, temp_dir, video_path, audio_path, tts_out_dir, tts,
                   speaker, resolved, i, out_files, tts_files, full_tts_path,
                   list_path, list_lines, concat_input, tts_calls, printed,
                   writes, fmt>>

\* lines 176-177
MakeTtsDir ==
    /\ pc = "makedirs"
    /\ tts_out_dir' = PathJoin(temp_dir, "tts_segments")
    /\ fs' = fs \cup {AbsPath(tts_out_dir')}
    /\ writes' = writes \cup {tts_out_dir'}
    /\ pc' = "load_tts"
    /\ NoRaise
    /\ UNCHANGED <<args, temp_dir, video_path, audio_path, segments, tts,
                   speaker, resolved, i, out_files, tts_files, full_tts_path,
                   list_path, list_lines, concat_input, calls, tts_calls,
                   printed, reads, fmt>>

\* ------------------------------------------------ synthesize_segments_tts
\* hasattr(tts, "speakers") and tts.speakers
HasRoster(engine) == engine.hasSpeakers /\ engine.speakers # <<>>

\* a faulty variant: the requested voice is passed on without looking at the roster
ResolveSpeakerUnchecked(engine, voice) ==
    IF HasRoster(engine)
    THEN IF voice # NoVoice THEN voice ELSE engine.speakers[1]
    ELSE NoSpeaker

\* lines 88-103: the speaker for an engine and a requested voice
ResolveSpeaker(engine, voice) ==
    IF HasRoster(engine)
    THEN IF voice # NoVoice
         THEN IF \E k \in 1..Len(engine.speakers) : engine.speakers[k] = voice
              THEN voice
              ELSE engine.speakers[1]
         ELSE engine.speakers[1]
    ELSE NoSpeaker

\* lines 99 and 102: what is printed about the choice
VoiceMessages(engine, voice) ==
    IF HasRoster(engine)
    THEN IF voice # NoVoice
         THEN IF \E k \in 1..Len(engine.speakers) : engine.speakers[k] = voice
              THEN <<>>
              ELSE <<[level |-> "WARN", voice |-> voice, default |-> engine.speakers[1]]>>
         ELSE <<[level |-> "INFO", voice |-> voice, default |-> engine.speakers[1]]>>
    ELSE <<>>

\* line 178 entering synthesize_segments_tts, and line 85: the engine is loaded
LoadTTS ==
    /\ pc = "load_tts"
    /\ calls' = Append(calls, Call("synthesize_segments_tts", {}, tts_out_dir))
    /\ \/ /\ \E engine \in Engines : tts' = engine
          /\ pc' = "resolve_speaker"
          /\ NoRaise
       \/ /\ tts' = tts
          /\ Raise("EngineError", "synthesize_segments_tts")
    /\ UNCHANGED <<args, fs, temp_dir, video_path, audio_path, segments,
                   tts_out_dir, speaker, resolved, i, out_files, tts_files,
                   full_tts_path, list_path, list_lines, concat_input,
                   tts_calls, printed, reads, writes, fmt>>

\* lines 88-105
ResolveVoice ==
    /\ pc = "resolve_speaker"
    /\ speaker' = ResolveSpeaker(tts, args.voice)
    /\ printed' = printed \o VoiceMessages(tts, args.voice)
    /\ resolved' = resolved + 1
    /\ out_files' = <<>>
    /\ i' = 0
    /\ pc' = "synth_loop"
    /\ NoRaise
    /\ UNCHANGED <<args, fs, temp_dir, video_path, audio_path, segments,
                   tts_out_dir, tts, tts_files, full_tts_path, list_path,
                   list_lines, concat_input, calls, tts_calls, reads, writes,
                   fmt>>

\* line 107
SegmentPath(dir, k) == PathJoin(dir, SegmentFileName(k))

\* a faulty variant: no speaker is passed for a segment with empty text
SegmentSpeakerPerSegment(spk, seg) == IF seg.text = "" THEN NoSpeaker ELSE spk

\* line 111: the speaker given to tts_to_file for a segment
SegmentSpeaker(spk, seg) == spk

\* a faulty variant: a segment with empty text is skipped
SynthesizeSegmentSkipEmpty ==
    /\ pc = "synth_loop"
    /\ i < Len(segments)
    /\ LET seg == segments[i + 1]
           out_path == SegmentPath(tts_out_dir, i)
       IN  IF seg.text = ""
           THEN /\ i' = i + 1
                /\ pc' = "synth_loop"
                /\ NoRaise
                /\ UNCHANGED <<tts_calls, writes, reads, fs, out_files>>
           ELSE
           /\ tts_calls' = Append(tts_calls,
                 [text |-> seg.text, file_path |-> out_path,
                  speaker |-> SegmentSpeaker(speaker, seg),
                  language |-> args.language,
                  speaker_wav |-> args.speaker_wav])
           /\ writes' = writes \cup {out_path}
           /\ reads' = reads \cup (IF args.speaker_wav # NoPath
                                   THEN {args.speaker_wav} ELSE {})
           /\ \/ /\ fs' = fs \cup {AbsPath(out_path)}
                 /\ out_files' = Append(out_files, out_path)
                 /\ i' = i + 1
                 /\ pc' = "synth_loop"
                 /\ NoRaise
              \/ /\ \E written \in BOOLEAN :
                      fs' = IF written THEN fs \cup {AbsPath(out_path)} ELSE fs
                 /\ UNCHANGED <<out_files, i>>
                 /\ Raise("EngineError", "synthesize_segments_tts")
    /\ UNCHANGED <<args, temp_dir, video_path, audio_path, segments,
                   tts_out_dir, tts, speaker, resolved, tts_files,
                   full_tts_path, list_path, list_lines, concat_input, calls,
                   printed, fmt>>

\* lines 106-115: one iteration of the loop, whatever the segment's text
SynthesizeSegment ==
    /\ pc = "synth_loop"
    /\ i < Len(segments)
    /\ LET seg == segments[i + 1]
           out_path == SegmentPath(tts_out_dir, i)
       IN  /\ tts_calls' = Append(tts_calls,
                 [text |-> seg.text, file_path |-> out_path,
                  speaker |-> SegmentSpeaker(speaker, seg),
                  language |-> args.language,
                  speaker_wav |-> args.speaker_wav])
           /\ writes' = writes \cup {out_path}
           /\ reads' = reads \cup (IF args.speaker_wav # NoPath
                                   THEN {args.speaker_wav} ELSE {})
           /\ \/ /\ fs' = fs \cup {AbsPath(out_path)}
                 /\ out_files' = Append(out_files, out_path)
                 /\ i' = i + 1
                 /\ pc' = "synth_loop"
                 /\ NoRaise
              \/ /\ \E written \in BOOLEAN :
                      fs' = IF written THEN fs \cup {AbsPath(out_path)} ELSE fs
                 /\ UNCHANGED <<out_files, i>>
                 /\ Raise("EngineError", "synthesize_segments_tts")
    /\ UNCHANGED <<args, temp_dir, video_path, audio_path, segments,
                   tts_out_dir, tts, speaker, resolved, tts_files,
                   full_tts_path, list_path, list_lines, concat_input, calls,
                   printed, fmt>>

\* line 117 and the assignment of line 178
SynthesizeReturn ==
    /\ pc = "synth_loop"
    /\ i = Len(segments)
    /\ tts_files' = out_files
    /\ pc' = "concat_list"
    /\ NoRaise
    /\ UNCHANGED <<args, fs, temp_dir, video_path, audio_path, segments,
                   tts_out_dir, tts, speaker, resolved, i, out_files,
                   full_tts_path, list_path, list_lines, concat_input, calls,
                   tts_calls, printed, reads, writes, fmt>>

\* ------------------------------------------------------ concatenate_audio
\* a faulty variant: the last entry of files is left out
ConcatListDropLast(files) ==
    [k \in 1..(Len(files) - 1) |-> [directive |-> "file", path |-> AbsPath(files[k])]]

\* lines 128-129: one line "file '<abspath>'" per entry of files, in order
ConcatList(files) ==
    [k \in 1..Len(files) |-> [directive |-> "file", path |-> AbsPath(files[k])]]

\* a faulty variant: the list file is written beside the working directory
ListPathInCwd(output_path) == <<"tts_full.wav_list.txt">>

\* line 126
ListPath(output_path) == PathPlus(output_path, "_list.txt")

\* lines 181-182 entering concatenate_audio, and lines 126-129
ConcatWriteList ==
    /\ pc = "concat_list"
    /\ full_tts_path' = PathJoin(temp_dir, "tts_full.wav")
    /\ calls' = Append(calls, Call("concatenate_audio",
                                   {tts_files[k] : k \in 1..Len(tts_files)},
                                   full_tts_path'))
    /\ list_path' = ListPath(full_tts_path')
    /\ list_lines' = ConcatList(tts_files)
    /\ fs' = fs \cup {AbsPath(list_path')}
    /\ writes' = writes \cup {list_path'}
    /\ pc' = "concat_run"
    /\ NoRaise
    /\ UNCHANGED <<args, temp_dir, video_path, audio_path, segments,
                   tts_out_dir, tts, speaker, resolved, i, out_files, tts_files,
                   concat_input, tts_calls, printed, reads, fmt>>

\* lines 131-138: ffmpeg -f concat -i list_path -c copy output_path
ConcatRun ==
    /\ pc = "concat_run"
    /\ concat_input' = list_lines
    /\ reads' = reads \cup {list_path} \cup {list_lines[k].path : k \in 1..Len(list_lines)}
    /\ writes' = writes \cup {full_tts_path}
    /\ \/ /\ fs' = fs \cup {AbsPath(full_tts_path)}
          /\ pc' = "concat_remove"
          /\ NoRaise
       \/ /\ \E written \in BOOLEAN :
               fs' = IF written THEN fs \cup {AbsPath(full_tts_path)} ELSE fs
          /\ Raise("CalledProcessError", "concatenate_audio")
    /\ UNCHANGED <<args, temp_dir, video_path, audio_path, segments,
                   tts_out_dir, tts, speaker, resolved, i, out_files, tts_files,
                   full_tts_path, list_path, list_lines, calls, tts_calls,
                   printed, fmt>>

\* line 139: os.remove(list_path)
ConcatRemoveList ==
    /\ pc = "concat_remove"
    /\ fs' = fs \ {AbsPath(list_path)}
    /\ pc' = "remux"
    /\ NoRaise
    /\ UNCHANGED <<args, temp_dir, video_path, audio_path, segments,
                   tts_out_dir, tts, speaker, resolved, i, out_files, tts_files,
                   full_tts_path, list_path, list_lines, concat_input, calls,
                   tts_calls, printed, reads, writes, fmt>>

\* ---------------------------------------------------- the rest of main
\* lines 184-185, with combine_audio_video (ffmpeg through run_cmd)
CombineAudioVideo ==
    /\ pc = "remux"
    /\ calls' = Append(calls, Call("combine_audio_video",
                                   {video_path, full_tts_path}, args.output))
    /\ reads' = reads \cup {video_path, full_tts_path}
    /\ writes' = writes \cup {args.output}
    /\ \/ /\ fs' = fs \cup {AbsPath(args.output)}
          /\ pc' = "print_done"
          /\ NoRaise
       \/ /\ \E written \in BOOLEAN :
               fs' = IF written THEN fs \cup {AbsPath(args.output)} ELSE fs
          /\ Raise("CalledProcessError", "combine_audio_video")
    /\ UNCHANGED <<args, temp_dir, video_path, audio_path, segments,
                   tts_out_dir, tts, speaker, resolved, i, out_files, tts_files,
                   full_tts_path, list_path, list_lines, concat_input,
                   tts_calls, printed, fmt>>

\* line 187: the try block ends
PrintDone ==
    /\ pc = "print_done"
    /\ pc' = "cleanup"
    /\ NoRaise
    /\ UNCHANGED <<args, fs, temp_dir, video_path, audio_path, segments,
                   tts_out_dir, tts, speaker, resolved, i, out_files, tts_files,
                   full_tts_path, list_path, list_lines, concat_input, calls,
                   tts_calls, printed, reads, writes, fmt>>

\* lines 189-191: the finally block, then main returns or the exception goes on
Cleanup ==
    /\ pc = "cleanup"
    /\ fs' = RmTree(fs, temp_dir)
    /\ pc' = IF exc = "None" THEN "returned" ELSE "raised"
    /\ NoRaise
    /\ UNCHANGED <<args, temp_dir, video_path, audio_path, segments,
                   tts_out_dir, tts, speaker, resolved, i, out_files, tts_files,
                   full_tts_path, list_path, list_lines, concat_input, calls,
                   tts_calls, printed, reads, writes, fmt>>

Next ==
    \/ MkDtemp
    \/ AcquireSource
    \/ ValidateSource
    \/ ExtractAudio
    \/ TranscribeAudio
    \/ MakeTtsDir
    \/ LoadTTS
    \/ ResolveVoice
    \/ SynthesizeSegment
    \/ SynthesizeReturn
    \/ ConcatWriteList
    \/ ConcatRun
    \/ ConcatRemoveList
    \/ CombineAudioVideo
    \/ PrintDone
    \/ Cleanup

Spec == Init /\ [][Next]_vars

\* ------------------------------------------------ the file-name check
\* the names of two segments of one run, i before j
NameInit ==
    /\ MainInit([video |-> LocalVideo, url |-> NoUrl, output |-> DefaultOutput,
                 language |-> NoLanguage, voice |-> NoVoice, speaker_wav |-> NoPath])
    /\ \E a \in NameIndices : \E b \in NameIndices :
         /\ a < b
         /\ fmt = [i |-> a, j |-> b, name_i |-> <<>>, name_j |-> <<>>, done |-> FALSE]

\* line 107 for segment i and for segment j
FormatNames ==
    /\ ~fmt.done
    /\ fmt' = [fmt EXCEPT !.name_i = SegmentNameCodes(fmt.i),
                          !.name_j = SegmentNameCodes(fmt.j),
                          !.done = TRUE]
    /\ UNCHANGED mainVars

NameNext == FormatNames

NameSpec == NameInit /\ [][NameNext]_vars

\* ------------------------------------------------------------ the claims
Terminated == pc \in {"returned", "raised"}

Fns == [k \in 1..Len(calls) |-> calls[k].fn]

Called(fn) == \E k \in 1..Len(calls) : calls[k].fn = fn

InWorkspace(path) == IsUnder(AbsPath(path), TempDir)

InputMp4 == PathJoin(TempDir, "input.mp4")

\* C1: once main() has created its workspace, then when main() has returned
\* or the error has left main(), whatever the stage that failed, neither the
\* workspace directory nor anything below it exists.
C1_WorkspaceRemovedOnExit ==
    Terminated =>
        /\ temp_dir = TempDir
        /\ \A p \in fs : ~IsUnder(p, temp_dir)

\* a run that failed in the concatenation, with clips on disk, has ended
C1_Witness ==
    /\ pc = "raised"
    /\ failed_at = "concatenate_audio"
    /\ Len(tts_files) = MaxSegs

LaterStages ==
    {"extract_audio", "transcribe_audio", "synthesize_segments_tts",
     "concatenate_audio", "combine_audio_video"}

\* C2: when the download exits non-zero, or neither --video nor --url is
\* given, or the resolved video path does not exist, none of extract_audio,
\* transcribe_audio, synthesize_segments_tts (nor any tts_to_file call),
\* concatenate_audio and combine_audio_video is invoked in that run.
C2_NoStageAfterSourceFailure ==
    (\/ failed_at \in {"download_remote_video", "validate"}
     \/ (args.url = NoUrl /\ (args.video = NoPath \/ AbsPath(args.video) \notin fs))
     \/ (args.url # NoUrl /\ pc \notin {"mkdtemp", "acquire", "returned", "raised"}
         /\ InputMp4 \notin fs))
    => /\ \A k \in 1..Len(calls) : calls[k].fn \notin LaterStages
       /\ tts_calls = <<>>

\* the download succeeded, the file is not there, and the run has ended
C2_Witness ==
    /\ pc = "raised"
    /\ failed_at = "validate"
    /\ args.url # NoUrl
    /\ Called("download_remote_video")

\* C3 as stated: with --video an existing file and --url both given, the
\* local file is the video of the run and nothing is downloaded.
C3_LocalPathTakesPrecedence ==
    (args.video = LocalVideo /\ args.url # NoUrl /\ pc \notin {"mkdtemp", "acquire"})
    => /\ video_path = LocalVideo
       /\ ~Called("download_remote_video")

\* C3 amended: with --video and --url both given, the URL is the source,
\* whether or not the local file exists: the download is the first call, the
\* video of the run is input.mp4 in the workspace, audio extraction and remux
\* read that file, and the local file is never read.  The local file is the
\* video of the run only when no URL is given.
C3_UrlTakesPrecedence ==
    /\ (args.video # NoPath /\ args.url # NoUrl /\ pc \notin {"mkdtemp", "acquire"})
       => /\ calls # <<>> /\ calls[1].fn = "download_remote_video"
          /\ calls[1].output = InputMp4
          /\ video_path = InputMp4
          /\ args.video \notin reads
          /\ \A k \in 1..Len(calls) :
               /\ calls[k].fn = "extract_audio" => calls[k].inputs = {InputMp4}
               /\ calls[k].fn = "combine_audio_video" => InputMp4 \in calls[k].inputs
    /\ (args.url = NoUrl /\ pc \notin {"mkdtemp", "acquire"})
       => /\ video_path = args.video
          /\ ~Called("download_remote_video")

\* both were given, the local file exists, and the run got through the remux
C3_Witness ==
    /\ args.video = LocalVideo
    /\ args.url # NoUrl
    /\ pc = "returned"
    /\ Called("combine_audio_video")

InRoster(voice) == \E k \in 1..Len(tts.speakers) : tts.speakers[k] = voice

Warned == \E k \in 1..Len(printed) : printed[k].level = "WARN"

\* C4: once the speaker is resolved: with a non-empty roster holding the
\* requested voice the speaker is that voice; with a non-empty roster not
\* holding the requested voice the speaker is the first roster entry, a
\* warning naming it is printed and synthesis does not fail before its first
\* tts_to_file call;
\* without a roster (absent or empty) the speaker is None.  The speaker
\* depends on the roster and the requested voice alone.
C4_VoiceResolution ==
    resolved >= 1 =>
        /\ (tts.hasSpeakers /\ tts.speakers # <<>> /\ args.voice # NoVoice
            /\ InRoster(args.voice))
           => (speaker = args.voice /\ ~Warned)
        /\ (tts.hasSpeakers /\ tts.speakers # <<>> /\ args.voice # NoVoice
            /\ ~InRoster(args.voice))
           => /\ speaker = tts.speakers[1]
              /\ printed = <<[level |-> "WARN", voice |-> args.voice,
                              default |-> tts.speakers[1]]>>
              /\ (tts_calls = <<>> => failed_at # "synthesize_segments_tts")
        /\ (~tts.hasSpeakers \/ tts.speakers = <<>>)
           => (speaker = NoSpeaker /\ printed = <<>>)

\* the requested voice is not in the roster and the run went on to the end
C4_Witness ==
    /\ args.voice = "en_us_female"
    /\ tts.speakers = <<"narrator_a", "narrator_b">>
    /\ speaker = "narrator_a"
    /\ Warned
    /\ Len(tts_calls) = MaxSegs
    /\ pc = "returned"

\* C5: the speaker is resolved at most once in a run, it has been resolved
\* when the first tts_to_file call is made, and every tts_to_file call of the
\* run has received the speaker that was resolved.
C5_SpeakerResolvedOnce ==
    /\ resolved <= 1
    /\ tts_calls # <<>> => resolved = 1
    /\ resolved = 0 => speaker = NoSpeaker
    /\ \A k \in 1..Len(tts_calls) : tts_calls[k].speaker = speaker

\* every segment of the longest list was synthesized with a roster voice
C5_Witness ==
    /\ Len(tts_calls) = MaxSegs
    /\ speaker # NoSpeaker
    /\ \E k \in 1..Len(segments) : segments[k].text = ""
    /\ \E k \in 1..Len(segments) : segments[k].text # ""

SynthesisReturned == pc = "concat_list" \/ Called("concatenate_audio")

\* C6: the k-th tts_to_file call of a run is for the k-th segment, empty text
\* or not, and writes the file named by its index; when synthesis has
\* returned there has been exactly one call per segment and the list returned
\* holds the n files in index order; when the engine raises on a segment that
\* call is the last one of the run.
C6_OneCallPerSegmentInOrder ==
    /\ Len(tts_calls) <= Len(segments)
    /\ \A k \in 1..Len(tts_calls) :
         /\ tts_calls[k].text = segments[k].text
         /\ tts_calls[k].file_path =
              PathJoin(PathJoin(TempDir, "tts_segments"), SegmentFileName(k - 1))
    /\ SynthesisReturned =>
         /\ Len(tts_calls) = Len(segments)
         /\ Len(tts_files) = Len(segments)
         /\ \A k \in 1..Len(tts_files) : tts_files[k] = tts_calls[k].file_path
    /\ (failed_at = "synthesize_segments_tts" /\ resolved = 1) =>
         /\ Len(tts_calls) = i + 1
         /\ Len(out_files) = i
         /\ tts_files = <<>>
         /\ ~Called("concatenate_audio")

\* synthesis returned for a list of the longest length whose second text is empty
C6_Witness ==
    /\ SynthesisReturned
    /\ Len(segments) = MaxSegs
    /\ segments[2].text = ""
    /\ Len(tts_files) = MaxSegs

\* C7 as stated: the file names of two segments differ and, for every number
\* of segments, the name of the earlier segment sorts before the later one's.
C7_NamesSortLikeIndices ==
    fmt.done =>
        /\ fmt.name_i # fmt.name_j
        /\ LexLess(fmt.name_i, fmt.name_j)

\* C7 amended: the file names of two segments differ whatever their indices,
\* and the name of the earlier segment sorts before the later one's when both
\* indices have at most four digits, that is in a run of at most 10000
\* segments.
C7_NamesSortLikeIndicesWithinWidth ==
    fmt.done =>
        /\ fmt.name_i # fmt.name_j
        /\ fmt.j < Pow10(PadWidth) => LexLess(fmt.name_i, fmt.name_j)

\* the names of segments 9 and 10, which only the padding keeps in order
C7_Witness ==
    /\ fmt.done
    /\ fmt.i = 9
    /\ fmt.j = 10
    /\ LexLess(fmt.name_i, fmt.name_j)

ListWritten == Called("concatenate_audio")

CodecRanOnList ==
    \/ pc \in {"concat_remove", "remux", "print_done"}
    \/ Called("combine_audio_video")
    \/ failed_at = "concatenate_audio"

SegmentClip(k) == PathJoin(PathJoin(TempDir, "tts_segments"), SegmentFileName(k - 1))

\* C8: the list concatenate_audio writes, and the list the codec tool reads,
\* hold one entry per segment clip, the k-th entry naming the clip of the k-th
\* segment, and main() hands concatenate_audio the list synthesis returned.
C8_ConcatPreservesOrder ==
    /\ ListWritten =>
         /\ tts_files = out_files
         /\ Len(list_lines) = Len(segments)
         /\ \A k \in 1..Len(list_lines) :
              /\ list_lines[k].directive = "file"
              /\ list_lines[k].path = AbsPath(tts_files[k])
              /\ list_lines[k].path = SegmentClip(k)
    /\ CodecRanOnList =>
         /\ Len(concat_input) = Len(segments)
         /\ \A k \in 1..Len(concat_input) : concat_input[k].path = SegmentClip(k)
    /\ ~CodecRanOnList => concat_input = <<>>

\* the codec tool was run on a list of the longest length and the run returned
C8_Witness ==
    /\ pc = "returned"
    /\ Len(concat_input) = MaxSegs
    /\ Len(segments) = MaxSegs

StageOrder ==
    <<"extract_audio", "transcribe_audio", "synthesize_segments_tts",
      "concatenate_audio", "combine_audio_video">>

ExpectedOrder ==
    IF args.url # NoUrl THEN <<"download_remote_video">> \o StageOrder ELSE StageOrder

\* C9: the stages invoked so far are an initial part of download (when a URL
\* is given), extract_audio, transcribe_audio, synthesize_segments_tts,
\* concatenate_audio, combine_audio_video, each at most once; after a failure
\* the failing stage is the last one invoked and main() is cleaning up or has
\* raised; main() returns only after every stage was invoked, none failed and
\* the remux has written the output path.
C9_LinearPipeline ==
    /\ Len(Fns) <= Len(ExpectedOrder)
    /\ Fns = SubSeq(ExpectedOrder, 1, Len(Fns))
    /\ exc # "None" =>
         /\ pc \in {"cleanup", "raised"}
         /\ IF failed_at = "validate"
            THEN \A k \in 1..Len(calls) : calls[k].fn = "download_remote_video"
            ELSE calls # <<>> /\ calls[Len(calls)].fn = failed_at
    /\ pc = "raised" => exc # "None"
    /\ pc \in {"print_done", "returned"} =>
         /\ exc = "None"
         /\ Fns = ExpectedOrder
         /\ AbsPath(args.output) \in fs

\* a run with a download went through every stage and returned
C9_Witness ==
    /\ pc = "returned"
    /\ Len(calls) = 6
    /\ AbsPath(args.output) \in fs

FrameOfWrites ==
    /\ \A p \in writes : InWorkspace(p) \/ p = args.output
    /\ ~InWorkspace(args.output)
    /\ Called("download_remote_video") => InWorkspace(video_path)
    /\ audio_path # NoPath => InWorkspace(audio_path)
    /\ tts_out_dir # NoPath => InWorkspace(tts_out_dir)
    /\ \A k \in 1..Len(tts_calls) : InWorkspace(tts_calls[k].file_path)
    /\ list_path # NoPath => InWorkspace(list_path)
    /\ full_tts_path # NoPath => InWorkspace(full_tts_path)
    /\ Terminated => \A p \in writes : InWorkspace(p) => AbsPath(p) \notin fs
    /\ {LocalVideo, RefWav} \subseteq fs

\* C10 as stated: every intermediate artifact is in the workspace and is gone
\* when the run has ended; outside the workspace the run writes the output
\* path only and reads a local --video only, which cleanup leaves in place.
C10_OnlyOutputAndVideoOutside ==
    /\ FrameOfWrites
    /\ \A p \in reads : InWorkspace(p) \/ p = args.video

\* C10 amended: every intermediate artifact is in the workspace and is gone
\* when the run has ended; outside the workspace the run writes the output
\* path only, and reads only a local --video and the --speaker-wav reference
\* audio it hands to every tts_to_file call, both of which cleanup leaves in
\* place.
C10_OnlyOutputVideoAndSpeakerWavOutside ==
    /\ FrameOfWrites
    /\ \A p \in reads : InWorkspace(p) \/ p = args.video \/ p = args.speaker_wav

\* a run on a local video with a reference audio went through and returned
C10_Witness ==
    /\ pc = "returned"
    /\ args.video = LocalVideo
    /\ args.url = NoUrl
    /\ args.speaker_wav = RefWav
    /\ RefWav \in reads
    /\ Len(tts_calls) = MaxSegs

====
